---- MODULE Spec2Model ----
(***************************************************************************)
(* Setup composition and signal-chain management of the guitar gear app:   *)
(* SetupService (setups/services.py) over SetupRepository and              *)
(* SignalChainRepository (setups/repositories.py), BaseRepository          *)
(* (common/repositories.py) and the Setup / SignalChainItem models         *)
(* (setups/models.py).                                                     *)
(*                                                                         *)
(* The specifications share the database state:                            *)
(*   Spec             one client calling the signal-chain operations,      *)
(*                    each call one step, the response kept in `result`    *)
(*                    until it returns;                                    *)
(*   SpecReorder      the same client on one setup with a longer chain;    *)
(*   SpecAppend       add, remove and reorder on one setup, with explicit  *)
(*                    orders beyond the chain's length;                    *)
(*   SpecTags         one client calling create_setup with every tag       *)
(*                    combination and every name;                          *)
(*   SpecSocial       save, publish, unpublish and detail views, each      *)
(*                    call one step;                                       *)
(*   SpecConc         several add and remove requests in flight, a step    *)
(*                    per database statement;                              *)
(*   SpecConcSocial   several detail views and publish / unpublish calls   *)
(*                    in flight;                                           *)
(*   SpecConcReorder  reorder requests in flight with add and remove;      *)
(*   SpecListing      create, edit and toggle_favorite, and the owner's    *)
(*                    setup listing.                                       *)
(***************************************************************************)
EXTENDS Integers, Sequences, FiniteSets, TLC

VARIABLES setups, items, next_item_id, result, reqs

vars == <<setups, items, next_item_id, result, reqs>>

----------------------------------------------------------------------------
(* Bounds of the model.                                                    *)

\* rows of the Setup table
MaxSetups == 2
\* SignalChainItem ids handed out (the AutoField never reuses an id)
MaxItemId == 2
\* largest explicit `order` a caller supplies
MaxOrder == 1
\* SignalChainItem ids handed out under SpecReorder
MaxReorderItemId == 3
\* rows of the Setup table and SignalChainItem ids handed out under SpecConc
MaxConcSetups == 2
MaxConcItemId == 2
\* rows of the Setup table under SpecTags
MaxTagSetups == 1
\* rows of the Setup table and detail views counted under SpecSocial
MaxSocialSetups == 2
MaxViews == 2
\* rows of the Setup table, and detail views a process completes, under
\* SpecConcSocial
MaxConcSocialSetups == 1
MaxConcViews == 2
\* rows of the Setup table and SignalChainItem ids handed out under
\* SpecConcReorder
MaxRaceSetups == 1
MaxRaceItemId == 2
\* rows of the Setup table, SignalChainItem ids handed out and largest
\* explicit `order` under SpecAppend
MaxAppendSetups == 1
MaxAppendItemId == 3
MaxAppendOrder == 2
\* rows of the Setup table, and the last clock reading an edit may store,
\* under SpecListing
MaxListingSetups == 2
MaxListingClock == 4

----------------------------------------------------------------------------
(* Python values.                                                          *)

\* None for a nullable foreign key (genre, band, song)
None == "None"

\* Optional integers (order=None, a queryset of at most one row) are sets of
\* at most one element.
Nothing == {}

Some(x) == {x}

The(s) == CHOOSE x \in s : TRUE

\* A str is a sequence of characters.
Whitespace == {" "}

RECURSIVE lstrip(_)
lstrip(s) ==
    IF s # <<>> /\ Head(s) \in Whitespace THEN lstrip(Tail(s)) ELSE s

RECURSIVE rstrip(_)
rstrip(s) ==
    IF s # <<>> /\ s[Len(s)] \in Whitespace
    THEN rstrip(SubSeq(s, 1, Len(s) - 1))
    ELSE s

\* Mutant of strip: only leading whitespace is removed.
strip_leading(s) == lstrip(s)

\* str.strip()
strip(s) == rstrip(lstrip(s))

\* A settings dict is a set of <<key, JSON text of the value>> pairs.
EmptyDict == {}

\* None passed where a dict is expected (no dict holds this pair: a key is
\* never None)
NoneDict == { <<None, None>> }

\* `settings or {}`: None and the empty dict are falsy
OrEmptyDict(settings) ==
    IF settings = NoneDict \/ settings = EmptyDict THEN EmptyDict ELSE settings

----------------------------------------------------------------------------
(* Rows the core only reads: users, owned gear, genres, bands, songs.      *)

Users == {"u1", "u2"}

\* OwnedGear rows: id -> user
OwnedGearIds == {1, 2, 3, 4}

OwnedGearUser(g) == IF g = 4 THEN "u2" ELSE "u1"

Genres == {"rock", "metal"}

Bands == {"b1", "b2", "b3"}

\* Band.genre (nullable)
BandGenre(b) ==
    CASE b = "b1" -> "rock"
      [] b = "b2" -> "metal"
      [] OTHER -> None

Songs == {"s1", "s2", "s3"}

\* Song.band (required)
SongBand(s) ==
    CASE s = "s1" -> "b1"
      [] s = "s2" -> "b2"
      [] OTHER -> "b3"

\* Song.genre property
SongGenre(s) == IF SongBand(s) # None THEN BandGenre(SongBand(s)) ELSE None

----------------------------------------------------------------------------
(* Inputs of the calls.                                                    *)

NameInputs == { <<>>, <<" ">>, <<"T">>, <<" ", "T", " ">> }

DescriptionInputs == { <<>>, <<" ", "d">> }

SettingsInputs == { EmptyDict, { <<"Gain", "\"75\"">>, <<"Tone", "60">> } }

NotesInputs == { "bridge" }

OrderInputs == {Nothing} \cup { Some(k) : k \in 0..MaxOrder }

SetupIds == 1..MaxSetups

ItemIds == 1..MaxItemId

----------------------------------------------------------------------------
(* Responses.                                                              *)

Ok == "ok"

ErrNameRequired == "Setup name is required"

ErrSetupNotYours == "Setup not found or doesn't belong to you"

ErrGearNotYours == "Gear not found or doesn't belong to you"

ErrAlreadyInSetup == "is already in this setup"

ErrSetupNotFound == "Setup not found"

ErrItemNotInChain == "Item not found in signal chain"

ErrItemNotFound == "Signal chain item not found"

ErrItemOtherSetup == "Item doesn't belong to this setup"

ErrListMismatch == "Item list doesn't match setup's signal chain"

\* django.db.IntegrityError raised by the unique_together constraint
IntegrityError == "IntegrityError"

\* django.http.Http404 raised by SetupDetailView.get_object
Http404 == "Http404: Setup not found"

\* SetupUpdateView: the object is not in the view's queryset
Http404NoMatch == "Http404: No setup found matching the query"

\* SetupUpdateView.form_invalid: the field the form reports an error on
FormInvalid(field) ==
    CASE field = "name" -> "form invalid: name"
      [] field = "band" -> "form invalid: band"
      [] OTHER -> "form invalid: genre"

\* The call a client has made and what it got back; op = "idle" between calls.
Idle ==
    [ op |-> "idle", user |-> "", setup_id |-> Nothing, id |-> Nothing,
      order |-> Nothing, settings |-> EmptyDict, ids |-> <<>>,
      name |-> <<>>, genre |-> None, band |-> None, song |-> None,
      ret |-> Nothing, is_saved |-> FALSE, error |-> Ok ]

----------------------------------------------------------------------------
(* Setup model (setups/models.py).                                         *)

\* Mutant of save: a band or genre the caller gave is kept.
save_keep_given(setup) ==
    IF setup.song # None
    THEN [setup EXCEPT
            !.band = IF setup.band = None THEN SongBand(setup.song) ELSE @,
            !.genre = IF setup.genre = None
                      THEN BandGenre(SongBand(setup.song)) ELSE @]
    ELSE setup

\* Setup.save: auto-tag song -> band -> genre, then the row is written.
save(setup) ==
    IF setup.song # None
    THEN [setup EXCEPT !.band = SongBand(setup.song),
                       !.genre = BandGenre(SongBand(setup.song))]
    ELSE IF setup.band # None /\ setup.genre = None
         THEN [setup EXCEPT !.genre = BandGenre(setup.band)]
         ELSE setup

\* Setup.clean: the field the validation rejects, or None. Only a form's
\* full_clean calls it; Model.save and objects.create do not.
clean(setup) ==
    IF setup.song # None /\ setup.band # None /\ SongBand(setup.song) # setup.band
    THEN "band"
    ELSE IF setup.band # None /\ setup.genre # None
            /\ BandGenre(setup.band) # setup.genre
         THEN "genre"
         ELSE IF setup.song # None /\ setup.genre # None
                 /\ SongGenre(setup.song) # setup.genre
              THEN "genre"
              ELSE None

\* The timestamps the rows of the table hold
timestamps(sts) ==
    { sts[i].created_at : i \in DOMAIN sts } \cup { sts[i].updated_at : i \in DOMAIN sts }

\* timezone.now() as auto_now / auto_now_add read it when a row is written:
\* a reading later than every timestamp already stored.
timezone_now(sts) ==
    1 + (CHOOSE m \in timestamps(sts) \cup {0} :
            \A t \in timestamps(sts) \cup {0} : t <= m)

\* BaseRepository.create for the Setup model: the repository's user is added,
\* fields not given take the model's defaults, objects.create saves the row
\* (created_at by auto_now_add, updated_at by auto_now).
create(user, name, description, genre, band, song, is_public) ==
    save([ user |-> user, name |-> name, description |-> description,
           genre |-> genre, band |-> band, song |-> song,
           is_public |-> is_public, is_favorite |-> FALSE,
           saved_by |-> {}, views |-> 0,
           created_at |-> timezone_now(setups),
           updated_at |-> timezone_now(setups) ])

\* Mutant of get_by_id: the query of get_with_signal_chain, which also
\* returns other users' public setups.
get_by_id_or_public(user, obj_id) ==
    { i \in DOMAIN setups :
        i = obj_id /\ (setups[i].user = user \/ setups[i].is_public) }

\* BaseRepository.get_by_id on SetupRepository(user): the ids of the rows
\* with this id that belong to the user (at most one).
get_by_id(user, obj_id) ==
    { i \in DOMAIN setups : i = obj_id /\ setups[i].user = user }

\* Mutant of owned_gear_get_by_id: the repository built without a user, its
\* queries global.
owned_gear_get_by_id_global(user, obj_id) ==
    { g \in OwnedGearIds : g = obj_id }

\* BaseRepository.get_by_id on OwnedGearRepository(user)
owned_gear_get_by_id(user, obj_id) ==
    { g \in OwnedGearIds : g = obj_id /\ OwnedGearUser(g) = user }

\* SetupRepository.get_with_signal_chain: the row with this id if it is the
\* user's or public
get_with_signal_chain(user, setup_id) ==
    { i \in DOMAIN setups :
        i = setup_id /\ (setups[i].user = user \/ setups[i].is_public) }

\* BaseRepository.get_by_id on SetupRepository() built without a user: the
\* base queryset is not filtered
public_repo_get_by_id(obj_id) == { i \in DOMAIN setups : i = obj_id }

\* setup.save(update_fields=['views']) of an object read earlier
save_views(sts, setup_id, views) == [sts EXCEPT ![setup_id].views = views]

\* SetupRepository.increment_views, the setup found
increment_views(sts, setup_id) ==
    save_views(sts, setup_id, sts[setup_id].views + 1)

\* setup.save(update_fields=['is_public']) of an object read earlier
save_is_public(sts, setup_id, is_public) ==
    [sts EXCEPT ![setup_id].is_public = is_public]

\* SetupRepository.toggle_public, the setup found
toggle_public(sts, setup_id) ==
    save_is_public(sts, setup_id, ~sts[setup_id].is_public)

\* setup.save(update_fields=['is_favorite']) of an object read earlier:
\* only that column is written (updated_at is not in update_fields).
save_is_favorite(sts, setup_id, is_favorite) ==
    [sts EXCEPT ![setup_id].is_favorite = is_favorite]

\* SetupRepository.toggle_favorite, the setup found
toggle_favorite_found(sts, setup_id) ==
    save_is_favorite(sts, setup_id, ~sts[setup_id].is_favorite)

\* order_by('-is_favorite', '-updated_at'): row a sorts before row b
order_by_before(sts, a, b) ==
    \/ sts[a].is_favorite /\ ~sts[b].is_favorite
    \/ /\ sts[a].is_favorite = sts[b].is_favorite
       /\ sts[a].updated_at > sts[b].updated_at

\* SetupRepository.get_user_setups: the orders in which the query can return
\* the user's rows (rows equal in both sort keys come in any order)
get_user_setups(user) ==
    LET mine == { i \in DOMAIN setups : setups[i].user = user }
    IN  { L \in [1..Cardinality(mine) -> mine] :
            /\ \A a, b \in DOMAIN L : a # b => L[a] # L[b]
            /\ \A a, b \in DOMAIN L :
                  a < b => ~order_by_before(setups, L[b], L[a]) }

\* Mutant of toggle_save_first: only the user's own setups are found.
toggle_save_first_owned(user, setup_id) ==
    { i \in DOMAIN setups : i = setup_id /\ setups[i].user = user }

\* SetupRepository.toggle_save: filter(Q(id) & (Q(is_public) | Q(user))).first()
toggle_save_first(user, setup_id) ==
    { i \in DOMAIN setups :
        i = setup_id /\ (setups[i].is_public \/ setups[i].user = user) }

\* SetupRepository.toggle_save, the setup found: saved_by.remove or
\* saved_by.add
toggle_save(sts, setup_id, user) ==
    IF user \in sts[setup_id].saved_by
    THEN [sts EXCEPT ![setup_id].saved_by = @ \ {user}]
    ELSE [sts EXCEPT ![setup_id].saved_by = @ \cup {user}]

\* Mutant of publish_toggles: publish always toggles.
publish_toggles_always(is_public) == TRUE

\* publish_setup: `if not setup.is_public`
publish_toggles(is_public) == ~is_public

\* unpublish_setup: `if setup.is_public`
unpublish_toggles(is_public) == is_public

----------------------------------------------------------------------------
(* SetupService.create_setup                                               *)

create_setup(user, name, description, genre, band, song, is_public) ==
    /\ IF name = <<>> \/ strip(name) = <<>>
       THEN /\ result' = [Idle EXCEPT !.op = "create_setup", !.user = user,
                             !.name = name, !.genre = genre, !.band = band,
                             !.song = song, !.error = ErrNameRequired]
            /\ UNCHANGED setups
       ELSE /\ setups' = Append(setups,
                   create(user, strip(name),
                          IF description # <<>> THEN strip(description) ELSE <<>>,
                          genre, band, song, is_public))
            /\ result' = [Idle EXCEPT !.op = "create_setup", !.user = user,
                             !.ret = Some(Len(setups) + 1),
                             !.name = name, !.genre = genre, !.band = band,
                             !.song = song]
    /\ UNCHANGED <<items, next_item_id, reqs>>

----------------------------------------------------------------------------
(* SignalChainItem table and SignalChainRepository.                        *)

\* The rows of one setup's chain
chain(its, setup_id) == { i \in its : i.setup_id = setup_id }

\* Mutant of exists: the duplicate check finds nothing.
exists_unchecked(its, setup_id, owned_gear_id) == FALSE

\* filter(setup=setup, owned_gear=owned_gear).exists()
exists(its, setup_id, owned_gear_id) ==
    \E i \in its : i.setup_id = setup_id /\ i.owned_gear_id = owned_gear_id

\* SignalChainRepository.get_count_for_setup / filter(setup=setup).count()
get_count_for_setup(its, setup_id) == Cardinality(chain(its, setup_id))

\* Mutant of violates_unique: the table is also unique in (setup, order).
violates_unique_order(its, row) ==
    \E i \in its :
        /\ i.setup_id = row.setup_id
        /\ i.owned_gear_id = row.owned_gear_id \/ i.order = row.order

\* The INSERT of objects.create under unique_together = [setup, owned_gear]:
\* the database refuses a second row for the pair.
violates_unique(its, row) ==
    \E i \in its :
        i.setup_id = row.setup_id /\ i.owned_gear_id = row.owned_gear_id

\* Mutant of insert_refused: the table has no unique constraint.
insert_never_refused(its, row) == FALSE

\* Whether objects.create raises IntegrityError for the row
insert_refused(its, row) == violates_unique(its, row)

\* Mutant of auto_order: an omitted order becomes the count plus one.
auto_order_one_based(its, setup_id, order) ==
    IF order = Nothing THEN get_count_for_setup(its, setup_id) + 1 ELSE The(order)

\* The `order` add_item stores: the caller's, or the chain's count.
auto_order(its, setup_id, order) ==
    IF order = Nothing THEN get_count_for_setup(its, setup_id) ELSE The(order)

\* SignalChainRepository.add_item: the row it creates
add_item(its, new_id, setup_id, owned_gear_id, order, settings, notes) ==
    [ id |-> new_id, setup_id |-> setup_id, owned_gear_id |-> owned_gear_id,
      order |-> auto_order(its, setup_id, order),
      settings |-> OrEmptyDict(settings), notes |-> notes ]

\* SignalChainRepository.remove_item: objects.get(id=item_id, setup=setup)
remove_item_found(its, item_id, setup_id) ==
    { i \in its : i.id = item_id /\ i.setup_id = setup_id }

\* Mutant of remove_item: the items behind the deleted one move up.
remove_item_renumbered(its, item_id, setup_id) ==
    LET gone == remove_item_found(its, item_id, setup_id)
    IN  { IF \E g \in gone : i.setup_id = g.setup_id /\ i.order > g.order
          THEN [i EXCEPT !.order = @ - 1]
          ELSE i : i \in its \ gone }

\* item.delete() of the row remove_item found
remove_item(its, item_id, setup_id) ==
    its \ remove_item_found(its, item_id, setup_id)

\* SignalChainRepository.update_settings: objects.get(id=item_id), then the
\* settings are assigned and saved
update_settings_found(its, item_id) == { i \in its : i.id = item_id }

\* Mutant of update_settings: the new settings are merged into the old.
update_settings_merged(its, item_id, settings) ==
    { IF i.id = item_id
      THEN [i EXCEPT !.settings =
              { kv \in @ : \A new \in settings : new[1] # kv[1] } \cup settings]
      ELSE i : i \in its }

update_settings(its, item_id, settings) ==
    { IF i.id = item_id THEN [i EXCEPT !.settings = settings] ELSE i : i \in its }

\* Mutant of update_order: positions counted from 1.
update_order_one_based(its, item_id, setup_id, index) ==
    { IF i.id = item_id /\ i.setup_id = setup_id
      THEN [i EXCEPT !.order = index + 1] ELSE i : i \in its }

\* One statement of SignalChainRepository.reorder:
\* filter(id=item_id, setup=setup).update(order=index)
update_order(its, item_id, setup_id, index) ==
    { IF i.id = item_id /\ i.setup_id = setup_id
      THEN [i EXCEPT !.order = index] ELSE i : i \in its }

\* SignalChainRepository.reorder: the statements for new_order[k..], 0-based
\* index k - 1
RECURSIVE reorder_from(_, _, _, _)
reorder_from(its, setup_id, new_order, k) ==
    IF k > Len(new_order) THEN its
    ELSE reorder_from(update_order(its, new_order[k], setup_id, k - 1),
                      setup_id, new_order, k + 1)

reorder(its, setup_id, new_order) == reorder_from(its, setup_id, new_order, 1)

\* SignalChainRepository.get_for_setup: order_by('order') fixes the sequence
\* only up to rows with equal order, so these are the sequences of ids a read
\* can return.
get_for_setup(its, setup_id) ==
    LET rows == chain(its, setup_id)
        n == Cardinality(rows)
    IN { s \in [1..n -> { i.id : i \in rows }] :
           /\ \A a, b \in 1..n : a # b => s[a] # s[b]
           /\ \A a, b \in 1..n :
                a < b => \A x, y \in rows :
                    x.id = s[a] /\ y.id = s[b] => x.order <= y.order }

\* values_list('id', flat=True) of the chain, as the set the service builds
chain_ids(its, setup_id) == { i.id : i \in chain(its, setup_id) }

\* set(item_ids_in_order)
set(seq) == { seq[k] : k \in DOMAIN seq }

----------------------------------------------------------------------------
(* SetupService: the signal-chain operations, one call per step.           *)

\* A sequence without a repeated element
Injective(seq) == \A a, b \in DOMAIN seq : a # b => seq[a] # seq[b]

\* The sequences of item ids a caller passes to reorder_signal_chain: ids
\* the table has handed out, up to one element longer than the setup's chain.
ReorderInputs(setup_id) ==
    UNION { [1..n -> 1..(next_item_id - 1)] :
              n \in 0..(get_count_for_setup(items, setup_id) + 1) }

\* SetupService.add_gear_to_setup
add_gear_to_setup(user, setup_id, owned_gear_id, order, settings, notes) ==
    LET setup == get_by_id(user, setup_id)
        owned_gear == owned_gear_get_by_id(user, owned_gear_id)
        row == add_item(items, next_item_id, setup_id, owned_gear_id,
                        order, OrEmptyDict(settings), notes)
        call == [Idle EXCEPT !.op = "add_gear_to_setup", !.user = user,
                    !.setup_id = Some(setup_id), !.id = Some(owned_gear_id),
                    !.order = order]
    IN  /\ IF setup = Nothing
           THEN /\ result' = [call EXCEPT !.error = ErrSetupNotYours]
                /\ UNCHANGED <<items, next_item_id>>
           ELSE IF owned_gear = Nothing
           THEN /\ result' = [call EXCEPT !.error = ErrGearNotYours]
                /\ UNCHANGED <<items, next_item_id>>
           ELSE IF exists(items, setup_id, owned_gear_id)
           THEN /\ result' = [call EXCEPT !.error = ErrAlreadyInSetup]
                /\ UNCHANGED <<items, next_item_id>>
           ELSE IF insert_refused(items, row)
           THEN /\ result' = [call EXCEPT !.error = IntegrityError]
                /\ UNCHANGED <<items, next_item_id>>
           ELSE /\ items' = items \cup {row}
                /\ next_item_id' = next_item_id + 1
                /\ result' = [call EXCEPT !.ret = Some(next_item_id)]
        /\ UNCHANGED <<setups, reqs>>

\* SetupService.remove_gear_from_setup
remove_gear_from_setup(user, setup_id, item_id) ==
    LET setup == get_by_id(user, setup_id)
        call == [Idle EXCEPT !.op = "remove_gear_from_setup", !.user = user,
                    !.setup_id = Some(setup_id), !.id = Some(item_id)]
    IN  /\ IF setup = Nothing
           THEN /\ result' = [call EXCEPT !.error = ErrSetupNotFound]
                /\ UNCHANGED items
           ELSE IF remove_item_found(items, item_id, setup_id) = {}
           THEN /\ result' = [call EXCEPT !.error = ErrItemNotInChain]
                /\ UNCHANGED items
           ELSE /\ items' = remove_item(items, item_id, setup_id)
                /\ result' = call
        /\ UNCHANGED <<setups, next_item_id, reqs>>

\* SetupService.update_gear_settings: no transaction.atomic, so what
\* update_settings saved stays saved when a later check raises.
update_gear_settings(user, setup_id, item_id, settings) ==
    LET setup == get_by_id(user, setup_id)
        item == update_settings_found(items, item_id)
        call == [Idle EXCEPT !.op = "update_gear_settings", !.user = user,
                    !.setup_id = Some(setup_id), !.id = Some(item_id),
                    !.settings = settings]
    IN  /\ IF setup = Nothing
           THEN /\ result' = [call EXCEPT !.error = ErrSetupNotFound]
                /\ UNCHANGED items
           ELSE IF item = {}
           THEN /\ result' = [call EXCEPT !.error = ErrItemNotFound]
                /\ UNCHANGED items
           ELSE /\ items' = update_settings(items, item_id, settings)
                /\ IF The(item).setup_id # setup_id
                   THEN result' = [call EXCEPT !.error = ErrItemOtherSetup]
                   ELSE result' = [call EXCEPT !.ret = Some(item_id)]
        /\ UNCHANGED <<setups, next_item_id, reqs>>

\* Mutant of reorder_valid: the provided ids need only belong to the chain.
reorder_valid_subset(existing_items, provided_items) ==
    provided_items \subseteq existing_items

\* The validation of SetupService.reorder_signal_chain
reorder_valid(existing_items, provided_items) == existing_items = provided_items

\* SetupService.reorder_signal_chain
reorder_signal_chain(user, setup_id, item_ids_in_order) ==
    LET setup == get_by_id(user, setup_id)
        call == [Idle EXCEPT !.op = "reorder_signal_chain", !.user = user,
                    !.setup_id = Some(setup_id), !.ids = item_ids_in_order]
    IN  /\ IF setup = Nothing
           THEN /\ result' = [call EXCEPT !.error = ErrSetupNotFound]
                /\ UNCHANGED items
           ELSE IF ~reorder_valid(chain_ids(items, setup_id), set(item_ids_in_order))
           THEN /\ result' = [call EXCEPT !.error = ErrListMismatch]
                /\ UNCHANGED items
           ELSE /\ items' = reorder(items, setup_id, item_ids_in_order)
                /\ result' = call
        /\ UNCHANGED <<setups, next_item_id, reqs>>

----------------------------------------------------------------------------
(* SetupService and SetupDetailView: saving, publishing, viewing.          *)

\* SetupService.toggle_save_setup
toggle_save_setup(user, setup_id) ==
    LET setup == toggle_save_first(user, setup_id)
        call == [Idle EXCEPT !.op = "toggle_save_setup", !.user = user,
                    !.setup_id = Some(setup_id)]
    IN  /\ IF setup = Nothing
           THEN /\ result' = [call EXCEPT !.is_saved = FALSE]
                /\ UNCHANGED setups
           ELSE /\ setups' = toggle_save(setups, setup_id, user)
                /\ result' = [call EXCEPT !.is_saved =
                                   user \notin setups[setup_id].saved_by]
        /\ UNCHANGED <<items, next_item_id, reqs>>

\* SetupService.publish_setup
publish_setup(user, setup_id) ==
    LET setup == get_by_id(user, setup_id)
        call == [Idle EXCEPT !.op = "publish_setup", !.user = user,
                    !.setup_id = Some(setup_id)]
    IN  /\ IF setup = Nothing
           THEN /\ result' = [call EXCEPT !.error = ErrSetupNotFound]
                /\ UNCHANGED setups
           ELSE /\ result' = [call EXCEPT !.ret = Some(setup_id)]
                /\ IF publish_toggles(setups[setup_id].is_public)
                   THEN setups' = toggle_public(setups, setup_id)
                   ELSE UNCHANGED setups
        /\ UNCHANGED <<items, next_item_id, reqs>>

\* SetupService.unpublish_setup
unpublish_setup(user, setup_id) ==
    LET setup == get_by_id(user, setup_id)
        call == [Idle EXCEPT !.op = "unpublish_setup", !.user = user,
                    !.setup_id = Some(setup_id)]
    IN  /\ IF setup = Nothing
           THEN /\ result' = [call EXCEPT !.error = ErrSetupNotFound]
                /\ UNCHANGED setups
           ELSE /\ result' = [call EXCEPT !.ret = Some(setup_id)]
                /\ IF unpublish_toggles(setups[setup_id].is_public)
                   THEN setups' = toggle_public(setups, setup_id)
                   ELSE UNCHANGED setups
        /\ UNCHANGED <<items, next_item_id, reqs>>

\* SetupDetailView.get_object: the detail page of setup pk for the user
get_object(user, pk) ==
    LET setup == get_with_signal_chain(user, pk)
        call == [Idle EXCEPT !.op = "get_object", !.user = user,
                    !.setup_id = Some(pk)]
    IN  /\ IF setup = Nothing
           THEN /\ result' = [call EXCEPT !.error = Http404]
                /\ UNCHANGED setups
           ELSE /\ result' = [call EXCEPT !.ret = Some(pk)]
                /\ IF user # setups[pk].user /\ public_repo_get_by_id(pk) # Nothing
                   THEN setups' = increment_views(setups, pk)
                   ELSE UNCHANGED setups
        /\ UNCHANGED <<items, next_item_id, reqs>>

\* SetupService.toggle_favorite
toggle_favorite(user, setup_id) ==
    LET setup == get_by_id(user, setup_id)
        call == [Idle EXCEPT !.op = "toggle_favorite", !.user = user,
                    !.setup_id = Some(setup_id)]
    IN  /\ IF setup = Nothing
           THEN /\ result' = [call EXCEPT !.error = ErrSetupNotFound]
                /\ UNCHANGED setups
           ELSE /\ setups' = toggle_favorite_found(setups, setup_id)
                /\ result' = [call EXCEPT !.ret = Some(setup_id)]
        /\ UNCHANGED <<items, next_item_id, reqs>>

\* SetupUpdateView.post: the object from the user's queryset, the SetupForm
\* bound to it (CharFields stripped, name required, Setup.clean through
\* full_clean), and form.save(): Setup.save writes every column, updated_at
\* among them (auto_now).
update_view(user, pk, name, description, genre, band, song, is_public) ==
    LET found == get_by_id(user, pk)
        call == [Idle EXCEPT !.op = "update_view", !.user = user,
                    !.setup_id = Some(pk), !.name = name, !.genre = genre,
                    !.band = band, !.song = song]
        instance == [setups[pk] EXCEPT !.name = strip(name),
                        !.description = strip(description), !.genre = genre,
                        !.band = band, !.song = song, !.is_public = is_public]
    IN  /\ IF found = Nothing
           THEN /\ result' = [call EXCEPT !.error = Http404NoMatch]
                /\ UNCHANGED setups
           ELSE IF strip(name) = <<>>
           THEN /\ result' = [call EXCEPT !.error = FormInvalid("name")]
                /\ UNCHANGED setups
           ELSE IF clean(instance) # None
           THEN /\ result' = [call EXCEPT !.error = FormInvalid(clean(instance))]
                /\ UNCHANGED setups
           ELSE /\ setups' = [setups EXCEPT ![pk] =
                       [save(instance) EXCEPT !.updated_at = timezone_now(setups)]]
                /\ result' = [call EXCEPT !.ret = Some(pk)]
        /\ UNCHANGED <<items, next_item_id, reqs>>

\* SetupListView.get_queryset: the user's setups as the page lists them
list_view(user) ==
    /\ \E L \in get_user_setups(user) :
          result' = [Idle EXCEPT !.op = "list_view", !.user = user, !.ids = L]
    /\ UNCHANGED <<setups, items, next_item_id, reqs>>

----------------------------------------------------------------------------
(* Requests in flight: one step per database statement.                    *)
(* add_gear_to_setup runs under transaction.atomic; a statement reads what *)
(* is committed when it runs (READ COMMITTED), and the INSERT, checked by   *)
(* the unique constraint, is what the transaction commits.                 *)

\* A request a process is serving; pc = "idle" when it serves none. `obj` is
\* the Setup object the request holds in memory, `rows` the chain rows its
\* query returned, `k` the next position of the reorder loop, `max_order`
\* the count add_item read for an omitted order; `viewed` counts the detail
\* views of other users' setups the process has completed.
NoReq ==
    [ pc |-> "idle", op |-> "", user |-> "", setup_id |-> Nothing,
      id |-> Nothing, order |-> Nothing, settings |-> EmptyDict, notes |-> "",
      max_order |-> Nothing, obj |-> Nothing, ids |-> <<>>, rows |-> {}, k |-> 0, viewed |-> 0,
      ret |-> Nothing, error |-> Ok ]

\* The record of a request process p starts to serve
NewReq(p) == [NoReq EXCEPT !.viewed = reqs[p].viewed]

\* SetupService.create_setup with a valid name and no tags: one INSERT
conc_create_setup(p, user, is_public) ==
    /\ reqs[p].pc = "idle"
    /\ setups' = Append(setups, create(user, <<"T">>, <<>>, None, None, None, is_public))
    /\ reqs' = [reqs EXCEPT ![p] =
            [NewReq(p) EXCEPT !.pc = "done", !.op = "create_setup", !.user = user,
                          !.ret = Some(Len(setups) + 1)]]
    /\ UNCHANGED <<items, next_item_id, result>>

\* add_gear_to_setup, lines 59-73: the two get_by_id and the exists() query
add_gear_check(p, user, setup_id, owned_gear_id, order, settings, notes) ==
    LET setup == get_by_id(user, setup_id)
        owned_gear == owned_gear_get_by_id(user, owned_gear_id)
        req == [NoReq EXCEPT !.op = "add_gear_to_setup", !.user = user,
                   !.setup_id = Some(setup_id), !.id = Some(owned_gear_id),
                   !.order = order, !.settings = OrEmptyDict(settings),
                   !.notes = notes]
    IN  /\ reqs[p].pc = "idle"
        /\ reqs' = [reqs EXCEPT ![p] =
               IF setup = Nothing
               THEN [req EXCEPT !.pc = "done", !.error = ErrSetupNotYours]
               ELSE IF owned_gear = Nothing
               THEN [req EXCEPT !.pc = "done", !.error = ErrGearNotYours]
               ELSE IF exists(items, setup_id, owned_gear_id)
               THEN [req EXCEPT !.pc = "done", !.error = ErrAlreadyInSetup]
               ELSE IF order = Nothing
               THEN [req EXCEPT !.pc = "add_count"]
               ELSE [req EXCEPT !.pc = "add_insert"]]
        /\ UNCHANGED <<setups, items, next_item_id, result>>

\* add_item, lines 229-231: max_order = filter(setup=setup).count();
\* order = max_order
add_item_count(p) ==
    /\ reqs[p].pc = "add_count"
    /\ reqs' = [reqs EXCEPT ![p].pc = "add_insert",
                            ![p].max_order =
                                Some(auto_order(items, The(reqs[p].setup_id), Nothing)),
                            ![p].order =
                                Some(auto_order(items, The(reqs[p].setup_id), Nothing))]
    /\ UNCHANGED <<setups, items, next_item_id, result>>

\* add_item, lines 233-239: objects.create
add_item_insert(p) ==
    LET r == reqs[p]
        row == add_item(items, next_item_id, The(r.setup_id), The(r.id),
                        r.order, r.settings, r.notes)
    IN  /\ r.pc = "add_insert"
        /\ IF insert_refused(items, row)
           THEN /\ reqs' = [reqs EXCEPT ![p].pc = "done",
                                        ![p].error = IntegrityError]
                /\ UNCHANGED <<items, next_item_id>>
           ELSE /\ items' = items \cup {row}
                /\ next_item_id' = next_item_id + 1
                /\ reqs' = [reqs EXCEPT ![p].pc = "done",
                                        ![p].ret = Some(next_item_id)]
        /\ UNCHANGED <<setups, result>>

\* remove_gear_from_setup: get_by_id, then remove_item's get and delete
conc_remove_gear(p, user, setup_id, item_id) ==
    LET setup == get_by_id(user, setup_id)
        req == [NoReq EXCEPT !.pc = "done", !.op = "remove_gear_from_setup",
                   !.user = user, !.setup_id = Some(setup_id),
                   !.id = Some(item_id)]
    IN  /\ reqs[p].pc = "idle"
        /\ IF setup = Nothing
           THEN /\ reqs' = [reqs EXCEPT ![p] = [req EXCEPT !.error = ErrSetupNotFound]]
                /\ UNCHANGED items
           ELSE IF remove_item_found(items, item_id, setup_id) = {}
           THEN /\ reqs' = [reqs EXCEPT ![p] = [req EXCEPT !.error = ErrItemNotInChain]]
                /\ UNCHANGED items
           ELSE /\ items' = remove_item(items, item_id, setup_id)
                /\ reqs' = [reqs EXCEPT ![p] = req]
        /\ UNCHANGED <<setups, next_item_id, result>>

\* reorder_signal_chain, lines 123-134: get_by_id, the query for the chain's
\* ids and the validation. No transaction.atomic: every statement commits
\* on its own.
reorder_check(p, user, setup_id, item_ids_in_order) ==
    LET setup == get_by_id(user, setup_id)
        req == [NewReq(p) EXCEPT !.op = "reorder_signal_chain", !.user = user,
                   !.setup_id = Some(setup_id), !.ids = item_ids_in_order]
    IN  /\ reqs[p].pc = "idle"
        /\ reqs' = [reqs EXCEPT ![p] =
               IF setup = Nothing
               THEN [req EXCEPT !.pc = "done", !.error = ErrSetupNotFound]
               ELSE IF ~reorder_valid(chain_ids(items, setup_id),
                                      set(item_ids_in_order))
               THEN [req EXCEPT !.pc = "done", !.error = ErrListMismatch]
               ELSE IF item_ids_in_order = <<>>
               THEN [req EXCEPT !.pc = "done"]
               ELSE [req EXCEPT !.pc = "reorder_update", !.k = 1,
                                !.rows = chain(items, setup_id)]]
        /\ UNCHANGED <<setups, items, next_item_id, result>>

\* SignalChainRepository.reorder, lines 260-264: one pass of the loop, the
\* UPDATE for new_order[k] with index k - 1
reorder_update(p) ==
    LET r == reqs[p]
    IN  /\ r.pc = "reorder_update"
        /\ items' = update_order(items, r.ids[r.k], The(r.setup_id), r.k - 1)
        /\ reqs' = [reqs EXCEPT ![p] =
               IF r.k = Len(r.ids)
               THEN [@ EXCEPT !.pc = "done"]
               ELSE [@ EXCEPT !.k = r.k + 1]]
        /\ UNCHANGED <<setups, next_item_id, result>>

\* SetupDetailView.get_object, lines 49-57: get_with_signal_chain and the
\* comparison of the viewer with the setup's user
conc_get_object(p, user, pk) ==
    LET setup == get_with_signal_chain(user, pk)
        req == [NewReq(p) EXCEPT !.op = "get_object", !.user = user,
                   !.setup_id = Some(pk)]
    IN  /\ reqs[p].pc = "idle"
        /\ reqs' = [reqs EXCEPT ![p] =
               IF setup = Nothing
               THEN [req EXCEPT !.pc = "done", !.error = Http404]
               ELSE IF user # setups[pk].user
               THEN [req EXCEPT !.pc = "increment_get"]
               ELSE [req EXCEPT !.pc = "done", !.ret = Some(pk)]]
        /\ UNCHANGED <<setups, items, next_item_id, result>>

\* increment_views, line 134: setup = self.get_by_id(setup_id)
increment_views_get(p) ==
    LET setup == public_repo_get_by_id(The(reqs[p].setup_id))
    IN  /\ reqs[p].pc = "increment_get"
        /\ reqs' = [reqs EXCEPT ![p] =
               IF setup = Nothing
               THEN [@ EXCEPT !.pc = "done", !.ret = reqs[p].setup_id]
               ELSE [@ EXCEPT !.pc = "increment_save",
                              !.obj = Some(setups[The(setup)])]]
        /\ UNCHANGED <<setups, items, next_item_id, result>>

\* increment_views, lines 136-137: setup.views += 1; setup.save(...); the
\* view is complete
increment_views_save(p) ==
    /\ reqs[p].pc = "increment_save"
    /\ setups' = save_views(setups, The(reqs[p].setup_id),
                            The(reqs[p].obj).views + 1)
    /\ reqs' = [reqs EXCEPT ![p].pc = "done", ![p].ret = reqs[p].setup_id,
                            ![p].viewed = @ + 1]
    /\ UNCHANGED <<items, next_item_id, result>>

\* publish_setup, lines 150-156: get_by_id and `if not setup.is_public`
conc_publish_setup(p, user, setup_id) ==
    LET setup == get_by_id(user, setup_id)
        req == [NewReq(p) EXCEPT !.op = "publish_setup", !.user = user,
                   !.setup_id = Some(setup_id)]
    IN  /\ reqs[p].pc = "idle"
        /\ reqs' = [reqs EXCEPT ![p] =
               IF setup = Nothing
               THEN [req EXCEPT !.pc = "done", !.error = ErrSetupNotFound]
               ELSE IF publish_toggles(setups[setup_id].is_public)
               THEN [req EXCEPT !.pc = "toggle_get"]
               ELSE [req EXCEPT !.pc = "done", !.ret = Some(setup_id)]]
        /\ UNCHANGED <<setups, items, next_item_id, result>>

\* unpublish_setup, lines 161-167: get_by_id and `if setup.is_public`
conc_unpublish_setup(p, user, setup_id) ==
    LET setup == get_by_id(user, setup_id)
        req == [NewReq(p) EXCEPT !.op = "unpublish_setup", !.user = user,
                   !.setup_id = Some(setup_id)]
    IN  /\ reqs[p].pc = "idle"
        /\ reqs' = [reqs EXCEPT ![p] =
               IF setup = Nothing
               THEN [req EXCEPT !.pc = "done", !.error = ErrSetupNotFound]
               ELSE IF unpublish_toggles(setups[setup_id].is_public)
               THEN [req EXCEPT !.pc = "toggle_get"]
               ELSE [req EXCEPT !.pc = "done", !.ret = Some(setup_id)]]
        /\ UNCHANGED <<setups, items, next_item_id, result>>

\* toggle_public, line 150: setup = self.get_by_id(setup_id)
toggle_public_get(p) ==
    LET setup == get_by_id(reqs[p].user, The(reqs[p].setup_id))
    IN  /\ reqs[p].pc = "toggle_get"
        /\ reqs' = [reqs EXCEPT ![p] =
               IF setup = Nothing
               THEN [@ EXCEPT !.pc = "done"]
               ELSE [@ EXCEPT !.pc = "toggle_save",
                              !.obj = Some(setups[The(setup)])]]
        /\ UNCHANGED <<setups, items, next_item_id, result>>

\* toggle_public, lines 152-153: setup.is_public = not setup.is_public;
\* setup.save(update_fields=['is_public'])
toggle_public_save(p) ==
    /\ reqs[p].pc = "toggle_save"
    /\ setups' = save_is_public(setups, The(reqs[p].setup_id),
                                ~The(reqs[p].obj).is_public)
    /\ reqs' = [reqs EXCEPT ![p].pc = "done", ![p].ret = reqs[p].setup_id]
    /\ UNCHANGED <<items, next_item_id, result>>

\* The response leaves; the process can serve the next request.
conc_return(p) ==
    /\ reqs[p].pc = "done"
    /\ reqs' = [reqs EXCEPT ![p] = NewReq(p)]
    /\ UNCHANGED <<setups, items, next_item_id, result>>

\* The client takes the response; the next call can be made.
Return ==
    /\ result.op # "idle"
    /\ result' = Idle
    /\ UNCHANGED <<setups, items, next_item_id, reqs>>

----------------------------------------------------------------------------
(* Specifications.                                                         *)

\* The client has no call outstanding.
Ready == result.op = "idle"

Procs == {"p1", "p2"}

Init ==
    /\ setups = <<>>
    /\ items = {}
    /\ next_item_id = 1
    /\ result = Idle
    /\ reqs = [p \in Procs |-> NoReq]

\* A setup without tags, as the signal-chain operations find it
CreatePlain ==
    /\ Ready
    /\ \E user \in Users, is_public \in BOOLEAN :
        /\ create_setup(user, <<"T">>, <<>>, None, None, None, is_public)
        /\ Len(setups') <= MaxSetups

AddGear ==
    /\ Ready
    /\ \E user \in Users, setup_id \in SetupIds, owned_gear_id \in OwnedGearIds,
       order \in OrderInputs, settings \in SettingsInputs \cup {NoneDict},
       notes \in NotesInputs :
        /\ add_gear_to_setup(user, setup_id, owned_gear_id, order, settings, notes)
        /\ next_item_id' <= MaxItemId + 1

RemoveGear ==
    /\ Ready
    /\ \E user \in Users, setup_id \in SetupIds, item_id \in ItemIds :
        remove_gear_from_setup(user, setup_id, item_id)

UpdateSettings ==
    /\ Ready
    /\ \E user \in Users, setup_id \in SetupIds, item_id \in ItemIds,
       settings \in SettingsInputs :
        update_gear_settings(user, setup_id, item_id, settings)

Reorder ==
    /\ Ready
    /\ \E user \in Users, setup_id \in SetupIds :
        \E ids \in ReorderInputs(setup_id) :
        reorder_signal_chain(user, setup_id, ids)

Next ==
    \/ CreatePlain
    \/ AddGear
    \/ RemoveGear
    \/ UpdateSettings
    \/ Reorder
    \/ Return

Spec == Init /\ [][Next]_vars

\* SpecReorder: chains of up to MaxReorderItemId items, their settings left
\* empty and their setups private.
CreatePrivate ==
    /\ Ready
    /\ \E user \in Users :
        /\ create_setup(user, <<"T">>, <<>>, None, None, None, FALSE)
        /\ Len(setups') <= MaxSetups

AddPlain ==
    /\ Ready
    /\ \E user \in Users, setup_id \in SetupIds, owned_gear_id \in OwnedGearIds,
       order \in OrderInputs, notes \in NotesInputs :
        /\ add_gear_to_setup(user, setup_id, owned_gear_id, order, NoneDict, notes)
        /\ next_item_id' <= MaxReorderItemId + 1

RemoveAny ==
    /\ Ready
    /\ \E user \in Users, setup_id \in SetupIds, item_id \in 1..MaxReorderItemId :
        remove_gear_from_setup(user, setup_id, item_id)

NextReorder ==
    \/ CreatePrivate
    \/ AddPlain
    \/ RemoveAny
    \/ Reorder
    \/ Return

SpecReorder == Init /\ [][NextReorder]_vars

\* SpecConc: requests of several processes interleave.
ConcCreate ==
    \E p \in Procs, user \in Users :
        /\ conc_create_setup(p, user, FALSE)
        /\ Len(setups') <= MaxConcSetups

ConcAddCheck ==
    \E p \in Procs, user \in Users, setup_id \in 1..MaxConcSetups,
       owned_gear_id \in OwnedGearIds, order \in {Nothing, Some(0)} :
        /\ next_item_id <= MaxConcItemId
        /\ add_gear_check(p, user, setup_id, owned_gear_id, order, NoneDict, "")

ConcAddCount == \E p \in Procs : add_item_count(p)

ConcAddInsert ==
    \E p \in Procs :
        /\ add_item_insert(p)
        /\ next_item_id' <= MaxConcItemId + 1

ConcRemove ==
    \E p \in Procs, user \in Users, setup_id \in 1..MaxConcSetups,
       item_id \in 1..MaxConcItemId :
        conc_remove_gear(p, user, setup_id, item_id)

ConcReturn == \E p \in Procs : conc_return(p)

NextConc ==
    \/ ConcCreate
    \/ ConcAddCheck
    \/ ConcAddCount
    \/ ConcAddInsert
    \/ ConcRemove
    \/ ConcReturn

SpecConc == Init /\ [][NextConc]_vars

CreateTagged ==
    /\ Ready
    /\ \E user \in Users, name \in NameInputs, description \in DescriptionInputs,
       genre \in Genres \cup {None}, band \in Bands \cup {None},
       song \in Songs \cup {None}, is_public \in BOOLEAN :
        /\ create_setup(user, name, description, genre, band, song, is_public)
        /\ Len(setups') <= MaxTagSetups

NextTags ==
    \/ CreateTagged
    \/ Return

SpecTags == Init /\ [][NextTags]_vars

\* SpecAppend: one chain under add (explicit orders up to MaxAppendOrder),
\* remove and reorder.
AppendCreate ==
    /\ Ready
    /\ \E user \in Users :
        /\ create_setup(user, <<"T">>, <<>>, None, None, None, FALSE)
        /\ Len(setups') <= MaxAppendSetups

AppendAdd ==
    /\ Ready
    /\ \E user \in Users, setup_id \in 1..MaxAppendSetups,
       owned_gear_id \in OwnedGearIds,
       order \in {Nothing} \cup { Some(k) : k \in 0..MaxAppendOrder } :
        /\ add_gear_to_setup(user, setup_id, owned_gear_id, order, NoneDict, "")
        /\ next_item_id' <= MaxAppendItemId + 1

AppendRemove ==
    /\ Ready
    /\ \E user \in Users, setup_id \in 1..MaxAppendSetups,
       item_id \in 1..MaxAppendItemId :
        remove_gear_from_setup(user, setup_id, item_id)

AppendReorder ==
    /\ Ready
    /\ \E user \in Users, setup_id \in 1..MaxAppendSetups :
        \E ids \in ReorderInputs(setup_id) :
        reorder_signal_chain(user, setup_id, ids)

\* SpecSocial: setups saved, published, unpublished and viewed.
SocialCreate ==
    /\ Ready
    /\ \E user \in Users, is_public \in BOOLEAN :
        /\ create_setup(user, <<"T">>, <<>>, None, None, None, is_public)
        /\ Len(setups') <= MaxSocialSetups

ToggleSave ==
    /\ Ready
    /\ \E user \in Users, setup_id \in 1..MaxSocialSetups :
        toggle_save_setup(user, setup_id)

Publish ==
    /\ Ready
    /\ \E user \in Users, setup_id \in 1..MaxSocialSetups :
        publish_setup(user, setup_id)

Unpublish ==
    /\ Ready
    /\ \E user \in Users, setup_id \in 1..MaxSocialSetups :
        unpublish_setup(user, setup_id)

DetailView ==
    /\ Ready
    /\ \E user \in Users, pk \in 1..MaxSocialSetups :
        /\ get_object(user, pk)
        /\ \A i \in DOMAIN setups' : setups'[i].views <= MaxViews

NextSocial ==
    \/ SocialCreate
    \/ ToggleSave
    \/ Publish
    \/ Unpublish
    \/ DetailView
    \/ Return

SpecSocial == Init /\ [][NextSocial]_vars

\* SpecConcSocial: detail views and publish / unpublish requests of several
\* processes interleave. Publish calls overlap only with publish calls and
\* unpublish calls only with unpublish calls.
ConcSocialCreate ==
    \E p \in Procs, user \in Users, is_public \in BOOLEAN :
        /\ conc_create_setup(p, user, is_public)
        /\ Len(setups') <= MaxConcSocialSetups

ConcGetObject ==
    \E p \in Procs, user \in Users, pk \in 1..MaxConcSocialSetups :
        /\ \A q \in Procs : reqs[q].viewed < MaxConcViews
        /\ conc_get_object(p, user, pk)

ConcIncrementGet == \E p \in Procs : increment_views_get(p)

ConcIncrementSave == \E p \in Procs : increment_views_save(p)

\* No request of kind `op` is being served
NoneInFlight(op) ==
    \A q \in Procs : reqs[q].op = op => reqs[q].pc = "done"

ConcPublish ==
    \E p \in Procs, user \in Users, setup_id \in 1..MaxConcSocialSetups :
        /\ NoneInFlight("unpublish_setup")
        /\ conc_publish_setup(p, user, setup_id)

ConcUnpublish ==
    \E p \in Procs, user \in Users, setup_id \in 1..MaxConcSocialSetups :
        /\ NoneInFlight("publish_setup")
        /\ conc_unpublish_setup(p, user, setup_id)

ConcToggleGet == \E p \in Procs : toggle_public_get(p)

ConcToggleSave == \E p \in Procs : toggle_public_save(p)

NextConcSocial ==
    \/ ConcSocialCreate
    \/ ConcGetObject
    \/ ConcIncrementGet
    \/ ConcIncrementSave
    \/ ConcPublish
    \/ ConcUnpublish
    \/ ConcToggleGet
    \/ ConcToggleSave
    \/ ConcReturn

SpecConcSocial == Init /\ [][NextConcSocial]_vars

\* SpecConcReorder: reorder requests (their lists without repeated ids)
\* interleave, statement by statement, with add and remove requests on the
\* same setup.
RaceCreate ==
    \E p \in Procs, user \in Users :
        /\ conc_create_setup(p, user, FALSE)
        /\ Len(setups') <= MaxRaceSetups

RaceAddCheck ==
    \E p \in Procs, user \in Users, setup_id \in 1..MaxRaceSetups,
       owned_gear_id \in 1..MaxRaceItemId, order \in {Nothing, Some(0)} :
        /\ next_item_id <= MaxRaceItemId
        /\ add_gear_check(p, user, setup_id, owned_gear_id, order, NoneDict, "")

RaceAddInsert ==
    \E p \in Procs :
        /\ add_item_insert(p)
        /\ next_item_id' <= MaxRaceItemId + 1

RaceRemove ==
    \E p \in Procs, user \in Users, setup_id \in 1..MaxRaceSetups,
       item_id \in 1..MaxRaceItemId :
        conc_remove_gear(p, user, setup_id, item_id)

RaceReorderCheck ==
    \E p \in Procs, user \in Users, setup_id \in 1..MaxRaceSetups :
        \E ids \in ReorderInputs(setup_id) :
        /\ Injective(ids)
        /\ reorder_check(p, user, setup_id, ids)

RaceReorderUpdate == \E p \in Procs : reorder_update(p)

NextConcReorder ==
    \/ RaceCreate
    \/ RaceAddCheck
    \/ ConcAddCount
    \/ RaceAddInsert
    \/ RaceRemove
    \/ RaceReorderCheck
    \/ RaceReorderUpdate
    \/ ConcReturn

SpecConcReorder == Init /\ [][NextConcReorder]_vars

NextAppend ==
    \/ AppendCreate
    \/ AppendAdd
    \/ AppendRemove
    \/ AppendReorder
    \/ Return

SpecAppend == Init /\ [][NextAppend]_vars

\* SpecListing: setups created, edited and marked favorite, and listed.
ListingCreate ==
    /\ Ready
    /\ \E user \in Users :
        /\ create_setup(user, <<"T">>, <<>>, None, None, None, FALSE)
        /\ Len(setups') <= MaxListingSetups

ListingEdit ==
    /\ Ready
    /\ timezone_now(setups) <= MaxListingClock
    /\ \E user \in Users, pk \in 1..MaxListingSetups,
          name \in { <<" ">>, <<"T">> }, genre \in {None, "metal"},
          band \in {None, "b1"}, is_public \in BOOLEAN :
        update_view(user, pk, name, <<>>, genre, band, None, is_public)

ToggleFavorite ==
    /\ Ready
    /\ \E user \in Users, setup_id \in 1..MaxListingSetups :
        toggle_favorite(user, setup_id)

ListSetups ==
    /\ Ready
    /\ \E user \in Users : list_view(user)

NextListing ==
    \/ ListingCreate
    \/ ListingEdit
    \/ ToggleFavorite
    \/ ListSetups
    \/ Return

SpecListing == Init /\ [][NextListing]_vars

----------------------------------------------------------------------------
(* Properties.                                                             *)

\* The setup and the id a response's call named
CalledSetup(r) == The(r.setup_id)

CalledId(r) == The(r.id)

\* The step is the call `op` being made and answered
Calls(op) == result.op = "idle" /\ result'.op = op

\* The caller of the step's call owns the setup the call names
CallerOwnsSetup ==
    /\ CalledSetup(result') \in DOMAIN setups
    /\ setups[CalledSetup(result')].user = result'.user

\* C1: update_gear_settings by the owner of setup S with the id of an item of
\* another setup T fails, and that item's settings are afterwards what they
\* were before.
C1_ForeignItemUntouched ==
    [][ ( /\ Calls("update_gear_settings")
          /\ CallerOwnsSetup
          /\ \E i \in items :
                i.id = CalledId(result') /\ i.setup_id # CalledSetup(result') )
        => /\ result'.error # Ok
           /\ \A i \in items :
                i.id = CalledId(result')
                => \E j \in items' : j.id = i.id /\ j.settings = i.settings
      ]_vars

\* C2: in every reachable state, interleaved add_gear_to_setup requests
\* included, no setup's chain holds two items for the same owned gear.
C2_NoDuplicateGear ==
    \A i, j \in items :
        i.setup_id = j.setup_id /\ i.owned_gear_id = j.owned_gear_id => i = j

\* Two requests passed the duplicate check for the same setup and gear; one
\* inserted its row and the other was refused by the unique constraint.
C2_Witness ==
    \E p, q \in Procs :
        /\ p # q
        /\ reqs[p].op = "add_gear_to_setup" /\ reqs[p].pc = "done"
        /\ reqs[p].error = IntegrityError
        /\ reqs[q].op = "add_gear_to_setup" /\ reqs[q].pc = "done"
        /\ reqs[q].error = Ok
        /\ reqs[q].setup_id = reqs[p].setup_id /\ reqs[q].id = reqs[p].id

\* C3: add_gear_to_setup with an owned gear already in the setup's chain
\* fails, for the setup's owner with the Conflict error "is already in this
\* setup" (another caller does not get as far: the setup is not found), and
\* the table of chain items is afterwards what it was before.
C3_DuplicateAddRejected ==
    [][ ( /\ Calls("add_gear_to_setup")
          /\ \E i \in items :
                /\ i.setup_id = CalledSetup(result')
                /\ i.owned_gear_id = CalledId(result') )
        => /\ result'.error =
                IF CallerOwnsSetup THEN ErrAlreadyInSetup ELSE ErrSetupNotYours
           /\ items' = items
           /\ next_item_id' = next_item_id
      ]_vars

C3_Witness ==
    /\ result.op = "add_gear_to_setup"
    /\ result.error = ErrAlreadyInSetup
    /\ Cardinality(chain(items, CalledSetup(result))) = 2
    /\ \E i \in items :
          i.setup_id = CalledSetup(result) /\ i.owned_gear_id = CalledId(result)

\* C4: a successful reorder_signal_chain whose ids are a permutation of the
\* setup's item ids leaves item ids[k] with order k - 1 (0-based), the orders
\* of the chain exactly 0..n-1, and every read of the chain in ascending
\* order returning exactly the supplied sequence.
C4_ReorderAssignsPositions ==
    ( /\ result.op = "reorder_signal_chain"
      /\ result.error = Ok
      /\ Injective(result.ids) )
    => LET sid == CalledSetup(result)
           ids == result.ids
       IN  /\ chain_ids(items, sid) = set(ids)
           /\ \A k \in DOMAIN ids :
                \E i \in chain(items, sid) : i.id = ids[k] /\ i.order = k - 1
           /\ { i.order : i \in chain(items, sid) } = 0..(Len(ids) - 1)
           /\ get_for_setup(items, sid) = {ids}

C4_Witness ==
    /\ result.op = "reorder_signal_chain"
    /\ result.error = Ok
    /\ result.ids = <<3, 1, 2>>

\* C5: reorder_signal_chain by the setup's owner with a sequence that repeats
\* an id is rejected with "Item list doesn't match setup's signal chain" and
\* leaves every item's order unchanged.
C5_RepeatedIdRejected ==
    [][ ( /\ Calls("reorder_signal_chain")
          /\ CallerOwnsSetup
          /\ ~Injective(result'.ids) )
        => /\ result'.error = ErrListMismatch
           /\ items' = items
      ]_vars

\* C6: reorder_signal_chain whose ids, as a set, differ from the ids of the
\* setup's items fails, for the setup's owner with "Item list doesn't match
\* setup's signal chain" (another caller does not get as far: the setup is
\* not found), and leaves every item of every setup unchanged.
C6_ReorderMismatchRejected ==
    [][ ( /\ Calls("reorder_signal_chain")
          /\ set(result'.ids) # chain_ids(items, CalledSetup(result')) )
        => /\ result'.error =
                IF CallerOwnsSetup THEN ErrListMismatch ELSE ErrSetupNotFound
           /\ items' = items
      ]_vars

\* The rejected list misses an item of the chain and names an item of
\* another setup.
C6_Witness ==
    /\ result.op = "reorder_signal_chain"
    /\ result.error = ErrListMismatch
    /\ \E i \in chain(items, CalledSetup(result)) : i.id \notin set(result.ids)
    /\ \E i \in items :
          i.setup_id # CalledSetup(result) /\ i.id \in set(result.ids)
    /\ set(result.ids) \cap chain_ids(items, CalledSetup(result)) # {}

\* C7: remove_gear_from_setup fails with a NotFound error and removes nothing
\* when the caller does not own the setup, public or not, or when the item
\* is not in that setup's chain; the chains of all setups stay as they were.
C7_RemoveIsolated ==
    [][ ( /\ Calls("remove_gear_from_setup")
          /\ \/ ~CallerOwnsSetup
             \/ ~\E i \in items :
                    /\ i.id = CalledId(result')
                    /\ i.setup_id = CalledSetup(result') )
        => /\ result'.error \in {ErrSetupNotFound, ErrItemNotInChain}
           /\ items' = items
      ]_vars

\* Another user's public setup, and an item that is in its chain
C7_Witness ==
    /\ result.op = "remove_gear_from_setup"
    /\ result.error = ErrSetupNotFound
    /\ CalledSetup(result) \in DOMAIN setups
    /\ setups[CalledSetup(result)].is_public
    /\ setups[CalledSetup(result)].user # result.user
    /\ \E i \in items :
          i.id = CalledId(result) /\ i.setup_id = CalledSetup(result)

\* The ValidationError Setup.clean raises for the band field
ErrIncorrectBand == "band: incorrect band"

\* C8: create_setup with a valid name, a song and a band that is not the
\* song's band fails with the error naming the band field, and no setup is
\* persisted.
C8_ConflictingBandRejected ==
    [][ ( /\ Calls("create_setup")
          /\ strip(result'.name) # <<>>
          /\ result'.song # None /\ result'.band # None
          /\ SongBand(result'.song) # result'.band )
        => /\ result'.error = ErrIncorrectBand
           /\ setups' = setups
      ]_vars

\* A setup's tags form the chain song -> band -> genre
TagConsistent(setup) ==
    /\ setup.song # None
       => /\ setup.band = SongBand(setup.song)
          /\ setup.genre = BandGenre(SongBand(setup.song))
    /\ (setup.song = None /\ setup.band # None /\ setup.genre # None)
       => setup.genre = BandGenre(setup.band)

\* C9: every setup create_setup persisted is tag-consistent, whatever genre,
\* band and song were passed.
C9_PersistedTagsConsistent ==
    \A k \in DOMAIN setups : TagConsistent(setups[k])

\* C10: a setup created with a song is persisted with the song's band and
\* that band's genre, whatever band and genre were passed; a setup created
\* with a band, no song and no genre is persisted with the band's genre.
C10_AutoTagging ==
    (result.op = "create_setup" /\ result.error = Ok)
    => LET created == setups[The(result.ret)]
       IN  /\ created.song = result.song
           /\ result.song # None
              => /\ created.band = SongBand(result.song)
                 /\ created.genre = BandGenre(SongBand(result.song))
           /\ (result.song = None /\ result.band # None /\ result.genre = None)
              => /\ created.band = result.band
                 /\ created.genre = BandGenre(result.band)

\* A song was passed with another band and another genre than its own.
C10_Witness ==
    /\ result.op = "create_setup"
    /\ result.error = Ok
    /\ result.song # None
    /\ result.band # None /\ result.band # SongBand(result.song)
    /\ result.genre # None /\ result.genre # BandGenre(SongBand(result.song))
    /\ setups[The(result.ret)].band = SongBand(result.song)

\* The chain's orders are 0..n-1, ascending in insertion (id) order
InsertionOrdered(its, setup_id) ==
    /\ { i.order : i \in chain(its, setup_id) }
          = 0..(get_count_for_setup(its, setup_id) - 1)
    /\ \A i, j \in chain(its, setup_id) : i.id < j.id => i.order < j.order

\* C11: a successful add_gear_to_setup with order omitted stores the new item
\* with order = the number of items the setup's chain held just before the
\* call, every other item left as it was; so adds with order omitted to a
\* chain whose orders are 0..n-1 in insertion order (the empty chain first)
\* keep them 0..n in insertion order.
C11_OmittedOrderIsCount ==
    [][ ( /\ Calls("add_gear_to_setup")
          /\ result'.order = Nothing
          /\ result'.error = Ok )
        => LET sid == CalledSetup(result')
               n == Cardinality(chain(items, sid))
           IN  /\ \E row \in items' :
                    /\ row.id = The(result'.ret)
                    /\ row.setup_id = sid
                    /\ row.order = n
                    /\ row \notin items
                    /\ items' = items \cup {row}
               /\ InsertionOrdered(items, sid) => InsertionOrdered(items', sid)
      ]_vars

\* The third of three adds with order omitted to an empty setup: orders
\* 0, 1, 2 in insertion order.
C11_Witness ==
    /\ result.op = "add_gear_to_setup"
    /\ result.order = Nothing
    /\ result.error = Ok
    /\ result.ret = Some(3)
    /\ { <<i.id, i.order>> : i \in chain(items, CalledSetup(result)) }
          = { <<1, 0>>, <<2, 1>>, <<3, 2>> }

\* C12: whatever adds, removes and reorders came before, an item added with
\* order omitted is the last of its chain read in ascending order, ties
\* broken by insertion order: no other item of the chain has a larger order,
\* or the same order and a later id.
C12_OmittedOrderAppends ==
    ( /\ result.op = "add_gear_to_setup"
      /\ result.order = Nothing
      /\ result.error = Ok )
    => \A new, i \in chain(items, CalledSetup(result)) :
          new.id = The(result.ret)
          => \/ i.order < new.order
             \/ i.order = new.order /\ i.id <= new.id

\* The setup is one toggle_save finds for the user: public or the user's own
SavableBy(user, setup_id) ==
    /\ setup_id \in DOMAIN setups
    /\ setups[setup_id].is_public \/ setups[setup_id].user = user

\* C13: the boolean toggle_save_setup returns is the new saved state: whether
\* the caller is in the setup's saved_by after the call, also for a setup the
\* caller saved while it was public and that has since been unpublished.
C13_ReturnsSavedState ==
    result.op = "toggle_save_setup"
    => ( result.is_saved
         <=> /\ CalledSetup(result) \in DOMAIN setups
             /\ result.user \in setups[CalledSetup(result)].saved_by )

\* C14: toggle_save_setup raises no error; on a setup that is public or the
\* caller's it flips the caller's membership in saved_by and returns TRUE
\* when the caller was added, FALSE when removed; on any other setup it
\* returns FALSE; nothing else changes (other members, other fields, other
\* setups, the chain items).
C14_ToggleSaveFlips ==
    [][ Calls("toggle_save_setup")
        => LET sid == CalledSetup(result')
               user == result'.user
           IN  /\ result'.error = Ok
               /\ items' = items
               /\ IF SavableBy(user, sid)
                  THEN /\ result'.is_saved = (user \notin setups[sid].saved_by)
                       /\ setups' = [setups EXCEPT ![sid].saved_by =
                                        IF user \in @ THEN @ \ {user}
                                        ELSE @ \cup {user}]
                  ELSE /\ result'.is_saved = FALSE
                       /\ setups' = setups
      ]_vars

\* The second of two calls by a user who does not own the public setup: the
\* user is removed again, another user's membership stays.
C14_Witness ==
    /\ result.op = "toggle_save_setup"
    /\ ~result.is_saved
    /\ CalledSetup(result) \in DOMAIN setups
    /\ setups[CalledSetup(result)].is_public
    /\ setups[CalledSetup(result)].user # result.user
    /\ setups[CalledSetup(result)].saved_by = {setups[CalledSetup(result)].user}

\* C16: publish_setup by the owner leaves the setup public, whether it was
\* private or already public, and unpublish_setup leaves it private; nothing
\* else changes; called by anyone else both fail with "Setup not found" and
\* change nothing.
C16_PublishIdempotent ==
    [][ (Calls("publish_setup") \/ Calls("unpublish_setup"))
        => /\ items' = items
           /\ IF CallerOwnsSetup
              THEN /\ result'.error = Ok
                   /\ setups' = [setups EXCEPT ![CalledSetup(result')].is_public =
                                    (result'.op = "publish_setup")]
              ELSE /\ result'.error = ErrSetupNotFound
                   /\ setups' = setups
      ]_vars

\* An owner's publish_setup of a setup that others had already saved and
\* viewed: it is public.
C16_Witness ==
    /\ result.op = "publish_setup"
    /\ result.error = Ok
    /\ setups[CalledSetup(result)].is_public
    /\ setups[CalledSetup(result)].views > 0
    /\ setups[CalledSetup(result)].saved_by # {}

\* Sum of f[x] over the elements x of set S
RECURSIVE SumOver(_, _)
SumOver(f, S) ==
    IF S = {} THEN 0
    ELSE LET x == CHOOSE y \in S : TRUE IN f[x] + SumOver(f, S \ {x})

\* C15: a detail view by the setup's owner leaves views unchanged and every
\* completed detail view by another user adds exactly 1, concurrent views
\* included: whenever no detail view is in flight, the views of all setups
\* add up to the number of detail views of other users' setups completed so
\* far (views start at 0).
C15_ViewsCounted ==
    NoneInFlight("get_object")
    => SumOver([i \in DOMAIN setups |-> setups[i].views], DOMAIN setups)
       = SumOver([p \in Procs |-> reqs[p].viewed], Procs)

\* C20: once publish_setup calls of the owner on one setup, interleaved only
\* with each other, have all returned successfully, the setup is public;
\* symmetrically, after unpublish_setup calls it is private.
C20_PublishesEndPublic ==
    \A op \in {"publish_setup", "unpublish_setup"} :
      \A setup_id \in DOMAIN setups :
        ( \A p \in Procs :
            /\ reqs[p].pc = "done"
            /\ reqs[p].op = op
            /\ reqs[p].error = Ok
            /\ reqs[p].setup_id = Some(setup_id) )
        => setups[setup_id].is_public = (op = "publish_setup")

\* C17: a successful update_gear_settings leaves the item's settings exactly
\* the mapping supplied (no key of the old mapping kept, no value changed)
\* and the item's order, notes, gear and setup, and every other item, as
\* they were.
C17_SettingsReplaced ==
    [][ ( /\ Calls("update_gear_settings")
          /\ result'.error = Ok )
        => \E old \in items :
              /\ old.id = CalledId(result')
              /\ old.setup_id = CalledSetup(result')
              /\ items' = (items \ {old})
                             \cup {[old EXCEPT !.settings = result'.settings]}
              /\ setups' = setups
      ]_vars

\* The settings of an item were replaced by the empty mapping while another
\* item keeps its knobs.
C17_Witness ==
    /\ result.op = "update_gear_settings"
    /\ result.error = Ok
    /\ result.settings = EmptyDict
    /\ \E i, j \in items :
          /\ i.id = CalledId(result) /\ i.settings = EmptyDict
          /\ j.id # i.id /\ j.settings # EmptyDict

\* The string has only whitespace characters (the empty string too)
AllWhitespace(s) == \A k \in DOMAIN s : s[k] \in Whitespace

\* `out` is `name` without its leading and trailing whitespace
IsTrimmed(out, name) ==
    /\ out # <<>>
    /\ Head(out) \notin Whitespace
    /\ out[Len(out)] \notin Whitespace
    /\ \E a \in 0..Len(name) :
          /\ a + Len(out) <= Len(name)
          /\ SubSeq(name, a + 1, a + Len(out)) = out
          /\ AllWhitespace(SubSeq(name, 1, a))
          /\ AllWhitespace(SubSeq(name, a + Len(out) + 1, Len(name)))

\* C18: create_setup with an empty or whitespace-only name fails with "Setup
\* name is required" and persists nothing; any other call persists exactly
\* one setup, named by the trimmed name and owned by the caller, and returns
\* it.
C18_NameValidated ==
    [][ Calls("create_setup")
        => IF AllWhitespace(result'.name)
           THEN /\ result'.error = ErrNameRequired
                /\ setups' = setups
           ELSE /\ result'.error = Ok
                /\ Len(setups') = Len(setups) + 1
                /\ SubSeq(setups', 1, Len(setups)) = setups
                /\ result'.ret = Some(Len(setups'))
                /\ IsTrimmed(setups'[Len(setups')].name, result'.name)
                /\ setups'[Len(setups')].user = result'.user
      ]_vars

\* A name padded with whitespace was accepted and persisted trimmed.
C18_Witness ==
    /\ result.op = "create_setup"
    /\ result.error = Ok
    /\ result.name = <<" ", "T", " ">>
    /\ setups[The(result.ret)].name = <<"T">>
    /\ setups[The(result.ret)].user = result.user

\* What any reader of the committed rows sees of a reorder in flight: the
\* items the reorder validated (those still in the chain) are either all as
\* the reorder found them or all as it leaves them.
NoPartialReorder ==
    \A p \in Procs :
        reqs[p].pc = "reorder_update"
        => LET sid == The(reqs[p].setup_id)
               kept == { i \in chain(items, sid) : i.id \in set(reqs[p].ids) }
               before == { i \in reqs[p].rows : \E j \in kept : j.id = i.id }
           IN  \/ kept = before
               \/ kept = reorder(before, sid, reqs[p].ids)

\* The step ends a reorder that passed its validation, and every item then
\* in the setup's chain is one the reorder assigned an order to.
ReorderEndsComplete(p) ==
    (reqs[p].pc = "reorder_update" /\ reqs'[p].pc = "done")
    => \A i \in chain(items', The(reqs[p].setup_id)) : i.id \in set(reqs[p].ids)

\* C19: reorder_signal_chain is atomic and isolated: no state a concurrent
\* reader, add or remove can see has only some of a reorder's assignments
\* applied, and a reorder whose validation passed never ends with an item in
\* the setup's chain that it did not assign an order to.
C19_ReorderAtomic ==
    [][ /\ NoPartialReorder'
        /\ \A p \in Procs : ReorderEndsComplete(p)
      ]_vars

\* The step is process p running the statement at `from` and moving to `to`
ProcStep(p, from, to) == reqs[p].pc = from /\ reqs'[p].pc = to

\* C21: nothing serialises the adds of one setup. An add with order omitted
\* reads the count of the rows committed when its count query runs, and its
\* INSERT of a gear the chain does not hold succeeds with that count as the
\* order, whatever was inserted in between: two such adds of different gears
\* can read the same count and persist the same order.
C21_OrderRaceUnmitigated ==
    [][ \A p \in Procs :
          LET r == reqs[p]
              setup_id == The(r.setup_id)
          IN  /\ ProcStep(p, "add_count", "add_insert")
                 => reqs'[p].max_order = Some(Cardinality(chain(items, setup_id)))
              /\ ( /\ ProcStep(p, "add_insert", "done")
                   /\ r.max_order # Nothing
                   /\ ~exists(items, setup_id, The(r.id)) )
                 => /\ reqs'[p].error = Ok
                    /\ \E i \in items' \ items :
                          /\ items' = items \cup {i}
                          /\ i.setup_id = setup_id
                          /\ i.owned_gear_id = The(r.id)
                          /\ i.order = The(r.max_order)
      ]_vars

\* Two adds with order omitted, for different gears of one setup, both read
\* the same count and both persisted their item with it as the order.
C21_Witness ==
    \E p, q \in Procs : \E i, j \in items :
        /\ p # q /\ i # j
        /\ reqs[p].op = "add_gear_to_setup" /\ reqs[p].pc = "done"
        /\ reqs[q].op = "add_gear_to_setup" /\ reqs[q].pc = "done"
        /\ reqs[p].error = Ok /\ reqs[q].error = Ok
        /\ reqs[p].ret = Some(i.id) /\ reqs[q].ret = Some(j.id)
        /\ reqs[p].max_order # Nothing /\ reqs[q].max_order = reqs[p].max_order
        /\ i.setup_id = j.setup_id /\ i.owned_gear_id # j.owned_gear_id
        /\ i.order = The(reqs[p].max_order) /\ j.order = i.order

\* C22: add_gear_to_setup and remove_gear_from_setup do not renumber. A
\* successful add inserts one row and a successful remove deletes one row;
\* every other row of every setup keeps its order, settings and notes, so
\* the orders of a chain can have gaps after a removal.
C22_NoRenumbering ==
    [][ /\ ( Calls("add_gear_to_setup") /\ result'.error = Ok )
           => \E i \in items' :
                /\ i.id = The(result'.ret)
                /\ i \notin items
                /\ items' = items \cup {i}
        /\ ( Calls("remove_gear_from_setup") /\ result'.error = Ok )
           => \E i \in items :
                /\ i.id = CalledId(result')
                /\ items' = items \ {i}
      ]_vars

\* An item was removed from in front of another one, which keeps its order:
\* the chain's orders no longer start at 0.
C22_Witness ==
    /\ result.op = "remove_gear_from_setup"
    /\ result.error = Ok
    /\ \E i \in chain(items, CalledSetup(result)) :
          /\ i.order > 0
          /\ \A j \in chain(items, CalledSetup(result)) : j.order >= i.order

\* Every item of every chain references owned gear of the setup's owner
GearOfSetupOwner ==
    \A i \in items :
        /\ i.setup_id \in DOMAIN setups
        /\ i.owned_gear_id \in OwnedGearIds
        /\ OwnedGearUser(i.owned_gear_id) = setups[i.setup_id].user

\* C23: in every reachable state every item of a chain references owned
\* gear of the setup's owner; add_gear_to_setup by a user who does not own
\* the setup, or does not own the gear, fails with a not-found error and
\* adds nothing, whether or not the setup is public.
C23_GearBelongsToOwner ==
    [][ /\ GearOfSetupOwner'
        /\ ( /\ Calls("add_gear_to_setup")
             /\ \/ ~CallerOwnsSetup
                \/ CalledId(result') \notin OwnedGearIds
                \/ OwnedGearUser(CalledId(result')) # result'.user )
           => /\ result'.error \in {ErrSetupNotYours, ErrGearNotYours}
              /\ result'.ret = Nothing
              /\ items' = items
              /\ next_item_id' = next_item_id
      ]_vars

\* A user was refused the add of their own gear to another user's public
\* setup.
C23_Witness ==
    /\ result.op = "add_gear_to_setup"
    /\ result.error = ErrSetupNotYours
    /\ CalledSetup(result) \in DOMAIN setups
    /\ setups[CalledSetup(result)].is_public
    /\ setups[CalledSetup(result)].user # result.user
    /\ OwnedGearUser(CalledId(result)) = result.user
    /\ items # {}

\* C24: the owner's setup listing shows favorites first and, among setups
\* with the same favorite flag, the most recently created first, after any
\* sequence of create, edit and toggle_favorite calls.
C24_ListingOrder ==
    result.op = "list_view"
    => \A a, b \in DOMAIN result.ids :
          a < b
          => LET x == setups[result.ids[a]]
                 y == setups[result.ids[b]]
             IN  \/ x.is_favorite /\ ~y.is_favorite
                 \/ /\ x.is_favorite = y.is_favorite
                    /\ x.created_at > y.created_at
====
